---------------------------- MODULE Spec2Model ----------------------------
(***************************************************************************)
(* Model of org_fedora_oscap/rule_handling.py: the RuleData aggregate, its *)
(* four rule collections (PartRules, PasswdRules, PackageRules,            *)
(* BootloaderRules), the parsing of rule lines (new_rule), the evaluation  *)
(* of the rules against the installer's state (eval_rules) and the         *)
(* rendering of the rules as text (__str__).                               *)
(*                                                                         *)
(* Strings are sequences of symbols.  A symbol is a TLA+ string standing   *)
(* for a run of characters that the code never looks inside ("nodev",      *)
(* "/tmp", "aide"), or for one character the code does look at (",", the   *)
(* decimal digits, "-", "=").  A rule line is a sequence of lexemes: runs  *)
(* of whitespace and shell words; consecutive words of the inputs are      *)
(* always separated by whitespace.                                         *)
(***************************************************************************)
EXTENDS Integers, Sequences, FiniteSets, TLC

VARIABLES
    part_rules,        \* PartRules._rules: the PartRule objects, in the dict's iteration order
    minlen,            \* PasswdRules._minlen
    add_pkgs,          \* PackageRules._add_pkgs, in the set's iteration order
    remove_pkgs,       \* PackageRules._remove_pkgs, in the set's iteration order
    require_password,  \* BootloaderRules._require_password
    mountpoints,       \* storage.mountpoints: planned mount point -> format.options
    packageList,       \* ksdata.packages.packageList
    excludedList,      \* ksdata.packages.excludedList
    last,              \* the last call: operation, arguments, exception raised, value returned
    pre,               \* rule data and installer state right before the last call
    prev,              \* the call before the last one, and the installer state before it
    declared,          \* history: what the accepted part and passwd directives declared
    nrules,            \* number of new_rule calls so far
    nevals             \* number of eval_rules calls so far

vars == <<part_rules, minlen, add_pkgs, remove_pkgs, require_password,
          mountpoints, packageList, excludedList, last, pre, prev, declared,
          nrules, nevals>>

-----------------------------------------------------------------------------
(* Bounds of the model *)

MaxRules == 2
MaxEvals == 2

-----------------------------------------------------------------------------
(* Generic helpers *)

Range(s) == {s[i] : i \in DOMAIN s}

NoDuplicates(s) == \A i, j \in DOMAIN s : i # j => s[i] # s[j]

RECURSIVE Perms(_)
Perms(S) ==
    IF S = {} THEN {<<>>}
    ELSE UNION {{<<x>> \o p : p \in Perms(S \ {x})} : x \in S}

RECURSIVE Restrict(_, _)
(* the subsequence of s made of the elements that are in S *)
Restrict(s, S) ==
    IF s = <<>> THEN <<>>
    ELSE (IF Head(s) \in S THEN <<Head(s)>> ELSE <<>>) \o Restrict(Tail(s), S)

(* Iteration orders a hash table (dict or set) holding the keys of `old`, *)
(* iterated in that order, can have after the keys `new` are inserted     *)
(* without a resize: the old keys keep their slots, hence their relative  *)
(* order, and each new key lands in a slot decided by its hash.           *)
Orderings(old, new) ==
    {s \in Perms(Range(old) \cup new) : Restrict(s, Range(old)) = old}

-----------------------------------------------------------------------------
(* Strings *)

COMMA == ","

RECURSIVE Split(_, _)
(* str.split(sep): the items between the separators, empty items kept *)
Split(s, sep) ==
    IF \A i \in DOMAIN s : s[i] # sep THEN <<s>>
    ELSE LET i == CHOOSE k \in DOMAIN s :
                      s[k] = sep /\ \A j \in 1..(k - 1) : s[j] # sep
         IN  <<SubSeq(s, 1, i - 1)>> \o Split(SubSeq(s, i + 1, Len(s)), sep)

RECURSIVE Join(_, _)
(* sep.join(items) *)
Join(items, sep) ==
    IF items = <<>> THEN <<>>
    ELSE IF Len(items) = 1 THEN items[1]
    ELSE items[1] \o <<sep>> \o Join(Tail(items), sep)

Digits == <<"0", "1", "2", "3", "4", "5", "6", "7", "8", "9">>

DigitVal(c) == (CHOOSE i \in DOMAIN Digits : Digits[i] = c) - 1

(* the digits of a numeral in the given radix (8 or 10) *)
IsDigit(c, radix) == \E i \in 1..radix : Digits[i] = c

RECURSIVE NatVal(_, _)
NatVal(s, radix) ==
    IF s = <<>> THEN 0
    ELSE radix * NatVal(SubSeq(s, 1, Len(s) - 1), radix) + DigitVal(s[Len(s)])

(* optparse's conversion of an option value of type "int": a value that *)
(* starts with the digit 0 is read in radix 8, any other in radix 10    *)
(* (the 0x and 0b prefixes are not among the inputs of the model)       *)
Radix(s) == IF s # <<>> /\ s[1] = "0" THEN 8 ELSE 10

(* whether int(s, radix) succeeds: an optional sign, then at least one digit *)
IsInt(s) ==
    LET body == IF s # <<>> /\ s[1] = "-" THEN Tail(s) ELSE s
    IN  body # <<>> /\ \A i \in DOMAIN body : IsDigit(body[i], Radix(s))

IntVal(s) ==
    IF s[1] = "-" THEN 0 - NatVal(Tail(s), Radix(s)) ELSE NatVal(s, Radix(s))

-----------------------------------------------------------------------------
(* Lexemes of a rule line *)

WS == [k |-> "ws", name |-> "", val |-> <<>>]              \* a run of whitespace
Pos(text) == [k |-> "pos", name |-> "", val |-> text]      \* a word that is no option
Opt(name) == [k |-> "opt", name |-> name, val |-> <<>>]    \* --name
OptEq(name, v) == [k |-> "opteq", name |-> name, val |-> v]  \* --name=v

(* the characters of a word *)
WordText(w) ==
    CASE w.k = "pos" -> w.val
      [] w.k = "opt" -> <<w.name>>
      [] w.k = "opteq" -> <<w.name, "=">> \o w.val
      [] OTHER -> <<>>

RECURSIVE lstrip(_)
lstrip(line) ==
    IF line # <<>> /\ Head(line).k = "ws" THEN lstrip(Tail(line)) ELSE line

RECURSIVE rstrip(_)
rstrip(line) ==
    IF line # <<>> /\ line[Len(line)].k = "ws"
    THEN rstrip(SubSeq(line, 1, Len(line) - 1))
    ELSE line

(* str.strip() *)
strip(line) == rstrip(lstrip(line))

RECURSIVE first_word(_)
(* rule.split(None, 1)[0] of a stripped, non-empty line: the characters up *)
(* to the first whitespace                                                 *)
first_word(rule) ==
    IF rule = <<>> \/ Head(rule).k = "ws" THEN <<>>
    ELSE WordText(Head(rule)) \o first_word(Tail(rule))

(* shlex.split(rule): the words of the line *)
shlex_split(rule) == SelectSeq(rule, LAMBDA w : w.k # "ws")

-----------------------------------------------------------------------------
(* The option parsers (optparse.OptionParser) *)

HELP_OPTION == [dest |-> "", action |-> "help", type |-> "none"]

(* every OptionParser() has the --help option; the other options are the *)
(* add_option calls                                                       *)
PART_RULE_PARSER ==
    ("--help" :> HELP_OPTION) @@
    ("--mountoptions" :> [dest |-> "mount_options", action |-> "callback", type |-> "string"])

PASSWD_RULE_PARSER ==
    ("--help" :> HELP_OPTION) @@
    ("--minlen" :> [dest |-> "minlen", action |-> "store", type |-> "int"])

PACKAGE_RULE_PARSER ==
    ("--help" :> HELP_OPTION) @@
    ("--add" :> [dest |-> "add_pkgs", action |-> "append", type |-> "string"]) @@
    ("--remove" :> [dest |-> "remove_pkgs", action |-> "append", type |-> "string"])

BOOTLOADER_RULE_PARSER ==
    ("--help" :> HELP_OPTION) @@
    ("--passwd" :> [dest |-> "passwd", action |-> "store_true", type |-> "none"])

(* The option values a parse starts from (get_default_values): the        *)
(* defaults given to add_option, None otherwise.  None is written <<>>:   *)
(* the code only tests these values for truth before iterating them, and  *)
(* None and the empty list are both false.                                *)
DefaultValues ==
    [mount_options |-> <<>>, minlen |-> 0, add_pkgs |-> <<>>,
     remove_pkgs |-> <<>>, passwd |-> FALSE]

(* the callback of --mountoptions: the non-empty items of the value are *)
(* appended to the list of the destination                              *)
parse_csv(values, dest, value) ==
    [values EXCEPT ![dest] =
        @ \o SelectSeq(Split(value, COMMA), LAMBDA item : item # <<>>)]

(* an option's action on the values, given its (type-checked) value *)
TakeAction(values, o, value) ==
    CASE o.action = "callback" -> parse_csv(values, o.dest, value)
      [] o.action = "store" ->
            [values EXCEPT ![o.dest] = IF o.type = "int" THEN IntVal(value) ELSE value]
      [] o.action = "append" -> [values EXCEPT ![o.dest] = Append(@, value)]
      [] o.action = "store_true" -> [values EXCEPT ![o.dest] = TRUE]
      [] OTHER -> values

TakesValue(o) == o.action \in {"callback", "store", "append"}

RECURSIVE ProcessArgs(_, _, _, _)
(* OptionParser.parse_args(args), options and positional arguments        *)
(* interspersed: the result is [err, opts, args], where err is "" on      *)
(* success, "error" when the parser calls error() (it prints the usage    *)
(* and raises SystemExit(2)) and "help" for --help (SystemExit(0)).       *)
ProcessArgs(parser, rargs, values, largs) ==
    IF rargs = <<>> THEN [err |-> "", opts |-> values, args |-> largs]
    ELSE
      LET w == Head(rargs)
          rest == Tail(rargs)
          Fail(e) == [err |-> e, opts |-> values, args |-> largs]
      IN
      IF w.k = "pos" THEN ProcessArgs(parser, rest, values, Append(largs, w.val))
      ELSE IF w.name \notin DOMAIN parser THEN Fail("error")      \* no such option
      ELSE
        LET o == parser[w.name] IN
        IF o.action = "help" THEN Fail("help")
        ELSE IF TakesValue(o) THEN
          IF w.k = "opt" /\ rest = <<>> THEN Fail("error")        \* requires an argument
          ELSE
            LET value == IF w.k = "opteq" THEN w.val ELSE WordText(Head(rest))
                after == IF w.k = "opteq" THEN rest ELSE Tail(rest)
            IN
            IF o.type = "int" /\ ~IsInt(value) THEN Fail("error") \* invalid integer value
            ELSE ProcessArgs(parser, after, TakeAction(values, o, value), largs)
        ELSE IF w.k = "opteq" THEN Fail("error")                  \* does not take a value
        ELSE ProcessArgs(parser, rest, TakeAction(values, o, <<>>), largs)

parse_args(parser, args) == ProcessArgs(parser, args, DefaultValues, <<>>)

-----------------------------------------------------------------------------
(* The rule collections: merging of parsed directives *)

PartRule(mount_point) == [mount_point |-> mount_point, mount_options |-> <<>>]

InsertAt(s, i, x) == SubSeq(s, 1, i - 1) \o <<x>> \o SubSeq(s, i, Len(s))

(* PartRules.__contains__ *)
HasMountPoint(rules, mount_point) ==
    \E i \in DOMAIN rules : rules[i].mount_point = mount_point

(* PartRules.ensure_mount_point: the dicts the call can leave, as the     *)
(* sequences of their values in iteration order; a new key takes the slot *)
(* its hash decides, anywhere among the present ones                      *)
ensure_mount_point(rules, mount_point) ==
    IF HasMountPoint(rules, mount_point) THEN {rules}
    ELSE {InsertAt(rules, i, PartRule(mount_point)) : i \in 1..(Len(rules) + 1)}

(* Variant of PartRule.add_mount_options with a seeded fault: the options *)
(* of the directive replace the ones accumulated so far                   *)
add_mount_options_Replaces(self_options, mount_options) == mount_options

(* Variant of PartRule.add_mount_options with a seeded fault: the new    *)
(* options are filtered against the old list before any is appended (a  *)
(* list built first, then extend)                                       *)
add_mount_options_FilterFirst(self_options, mount_options) ==
    self_options \o SelectSeq(mount_options, LAMBDA opt : opt \notin Range(self_options))

RECURSIVE add_mount_options(_, _)
(* PartRule.add_mount_options: list.extend consumes the generator item by *)
(* item, so each "opt not in self._mount_options" test sees the options   *)
(* appended before it                                                     *)
add_mount_options(self_options, mount_options) ==
    IF mount_options = <<>> THEN self_options
    ELSE add_mount_options(
            IF Head(mount_options) \in Range(self_options) THEN self_options
            ELSE Append(self_options, Head(mount_options)),
            Tail(mount_options))

(* Variant of PasswdRules.update_minlen with a seeded fault: no comparison *)
update_minlen_AlwaysAssigns(self_minlen, new_minlen) == new_minlen

(* PasswdRules.update_minlen *)
update_minlen(self_minlen, new_minlen) ==
    IF new_minlen > self_minlen THEN new_minlen ELSE self_minlen

(* set.update(packages) on a set iterated in the order `pkgs`: the orders *)
(* the set can have afterwards                                            *)
SetUpdate(pkgs, packages) ==
    IF packages # <<>> THEN Orderings(pkgs, Range(packages) \ Range(pkgs))
    ELSE {pkgs}

(* PackageRules.add_packages *)
add_packages(self_add_pkgs, packages) == SetUpdate(self_add_pkgs, packages)

(* PackageRules.remove_packages *)
remove_packages(self_remove_pkgs, packages) == SetUpdate(self_remove_pkgs, packages)

(* BootloaderRules.require_password *)
BootloaderRules_require_password(self_require_password) == TRUE

-----------------------------------------------------------------------------
(* RuleData.new_rule and its four handlers.  The rule data is the record  *)
(* rd of the five attributes; a handler gives the set of outcomes         *)
(* [err, rd] it can have: err is the exception that leaves the call ("",  *)
(* none), rd the rule data it leaves.                                     *)

Outcome(err, rd) == [err |-> err, rd |-> rd]

(* what leaves parse_args when the parser rejects the arguments *)
ParserExit(e) == IF e = "help" THEN "SystemExit(0)" ELSE "SystemExit(2)"

(* Variant of RuleData._new_part_rule with a seeded fault: the rule of the *)
(* mount point is created even when the parser rejects the directive       *)
RuleData_new_part_rule_EnsuresOnError(rd, rule) ==
    LET r == parse_args(PART_RULE_PARSER, shlex_split(rule)) IN
    IF r.err # "" /\ Len(r.args) < 2 THEN {Outcome(ParserExit(r.err), rd)}
    ELSE IF r.err # ""
    THEN {Outcome(ParserExit(r.err), [rd EXCEPT !.part_rules = rules]) :
             rules \in ensure_mount_point(rd.part_rules, r.args[2])}
    ELSE IF Len(r.args) < 2 THEN {Outcome("IndexError", rd)}
    ELSE
      LET mount_point == r.args[2]
          WithOptions(rules) ==
              [i \in DOMAIN rules |->
                  IF rules[i].mount_point = mount_point /\ r.opts.mount_options # <<>>
                  THEN [rules[i] EXCEPT !.mount_options =
                            add_mount_options(@, r.opts.mount_options)]
                  ELSE rules[i]]
      IN  {Outcome("", [rd EXCEPT !.part_rules = WithOptions(rules)]) :
              rules \in ensure_mount_point(rd.part_rules, mount_point)}

RuleData_new_part_rule(rd, rule) ==
    LET r == parse_args(PART_RULE_PARSER, shlex_split(rule)) IN
    IF r.err # "" THEN {Outcome(ParserExit(r.err), rd)}
    \* args contain both "part" and the mount point
    ELSE IF Len(r.args) < 2 THEN {Outcome("IndexError", rd)}
    ELSE
      LET mount_point == r.args[2]
          WithOptions(rules) ==
              [i \in DOMAIN rules |->
                  IF rules[i].mount_point = mount_point /\ r.opts.mount_options # <<>>
                  THEN [rules[i] EXCEPT !.mount_options =
                            add_mount_options(@, r.opts.mount_options)]
                  ELSE rules[i]]
      IN  {Outcome("", [rd EXCEPT !.part_rules = WithOptions(rules)]) :
              rules \in ensure_mount_point(rd.part_rules, mount_point)}

RuleData_new_passwd_rule(rd, rule) ==
    LET r == parse_args(PASSWD_RULE_PARSER, shlex_split(rule)) IN
    IF r.err # "" THEN {Outcome(ParserExit(r.err), rd)}
    ELSE {Outcome("", [rd EXCEPT !.minlen = update_minlen(@, r.opts.minlen)])}

RuleData_new_package_rule(rd, rule) ==
    LET r == parse_args(PACKAGE_RULE_PARSER, shlex_split(rule)) IN
    IF r.err # "" THEN {Outcome(ParserExit(r.err), rd)}
    ELSE {Outcome("", [rd EXCEPT !.add_pkgs = a, !.remove_pkgs = b]) :
              a \in add_packages(rd.add_pkgs, r.opts.add_pkgs),
              b \in remove_packages(rd.remove_pkgs, r.opts.remove_pkgs)}

(* Variant of RuleData._new_bootloader_rule with a seeded fault: the flag *)
(* is assigned from the parsed option instead of being raised only        *)
RuleData_new_bootloader_rule_AssignsFlag(rd, rule) ==
    LET r == parse_args(BOOTLOADER_RULE_PARSER, shlex_split(rule)) IN
    IF r.err # "" THEN {Outcome(ParserExit(r.err), rd)}
    ELSE {Outcome("", [rd EXCEPT !.require_password = r.opts.passwd])}

RuleData_new_bootloader_rule(rd, rule) ==
    LET r == parse_args(BOOTLOADER_RULE_PARSER, shlex_split(rule)) IN
    IF r.err # "" THEN {Outcome(ParserExit(r.err), rd)}
    ELSE IF r.opts.passwd
    THEN {Outcome("", [rd EXCEPT !.require_password =
                            BootloaderRules_require_password(@)])}
    ELSE {Outcome("", rd)}

(* the keys of the actions dict *)
RuleKeywords == {<<"part">>, <<"passwd">>, <<"package">>, <<"bootloader">>}

(* Variant of RuleData.new_rule with a seeded fault: no "if not rule:    *)
(* return", so that the lookup of the (missing) first word fails         *)
RuleData_new_rule_NoBlankCheck(rd, line) ==
    LET rule == strip(line)
        word == first_word(rule)
    IN
    CASE word = <<"part">> -> RuleData_new_part_rule(rd, rule)
      [] word = <<"passwd">> -> RuleData_new_passwd_rule(rd, rule)
      [] word = <<"package">> -> RuleData_new_package_rule(rd, rule)
      [] word = <<"bootloader">> -> RuleData_new_bootloader_rule(rd, rule)
      [] OTHER -> {Outcome("UknownRuleError", rd)}

RuleData_new_rule(rd, line) ==
    LET rule == strip(line) IN
    IF rule = <<>> THEN {Outcome("", rd)}
    ELSE
      LET word == first_word(rule) IN
      CASE word = <<"part">> -> RuleData_new_part_rule(rd, rule)
        [] word = <<"passwd">> -> RuleData_new_passwd_rule(rd, rule)
        [] word = <<"package">> -> RuleData_new_package_rule(rd, rule)
        [] word = <<"bootloader">> -> RuleData_new_bootloader_rule(rd, rule)
        \* the KeyError of actions[first_word]; no handler raises a KeyError
        [] OTHER -> {Outcome("UknownRuleError", rd)}

-----------------------------------------------------------------------------
(* Evaluation of the rules.  The installer state is the record sys of     *)
(* storage.mountpoints (planned mount point -> format.options) and the    *)
(* two package lists of ksdata; an evaluation gives [messages, sys].      *)

RuleMessage(type, text) == [type |-> type, text |-> text]

MESSAGE_TYPE_FATAL == "FATAL"
MESSAGE_TYPE_WARNING == "WARNING"
MESSAGE_TYPE_INFO == "INFO"

(* "%s must be on a separate partition or logical volume" *)
MsgSeparatePartition(mount_point) ==
    RuleMessage(MESSAGE_TYPE_FATAL, <<"must be on a separate partition", mount_point>>)

(* "mount option '%s' added for the mount point %s" *)
MsgOptionAdded(opt, mount_point) ==
    RuleMessage(MESSAGE_TYPE_INFO, <<"mount option added", opt, mount_point>>)

(* "make sure to create password with minimal length of %d characters" *)
MsgMinLen(n) == RuleMessage(MESSAGE_TYPE_WARNING, <<"password minimal length", n>>)

(* "package '%s' has been added to the list of to be installed packages" *)
MsgPkgAdded(pkg) == RuleMessage(MESSAGE_TYPE_INFO, <<"package to be installed", pkg>>)

(* "package '%s' has been added to the list of excluded packages" *)
MsgPkgExcluded(pkg) == RuleMessage(MESSAGE_TYPE_INFO, <<"package excluded", pkg>>)

RECURSIVE Concat(_)
Concat(ss) == IF ss = <<>> THEN <<>> ELSE Head(ss) \o Concat(Tail(ss))

(* Variants of PartRule.eval_rules with a seeded fault, used to show that *)
(* the properties below depend on the code: the options are appended in  *)
(* report-only mode too                                                  *)
PartRule_eval_rules_IgnoresReportOnly(rule, storage_mountpoints, report_only) ==
    IF rule.mount_point \notin DOMAIN storage_mountpoints
    THEN [messages |-> <<MsgSeparatePartition(rule.mount_point)>>,
          mountpoints |-> storage_mountpoints]
    ELSE
      LET options == storage_mountpoints[rule.mount_point]
          new_opts == SelectSeq(rule.mount_options,
                                LAMBDA opt : opt \notin Range(Split(options, COMMA)))
          new_opts_str == Concat([i \in DOMAIN new_opts |-> <<COMMA>> \o new_opts[i]])
      IN  [messages |-> [i \in DOMAIN new_opts |->
                            MsgOptionAdded(new_opts[i], rule.mount_point)],
           mountpoints |->
              [storage_mountpoints EXCEPT ![rule.mount_point] = @ \o new_opts_str]]

(* fault: the options are appended without the separating comma *)
PartRule_eval_rules_NoSeparator(rule, storage_mountpoints, report_only) ==
    IF rule.mount_point \notin DOMAIN storage_mountpoints
    THEN [messages |-> <<MsgSeparatePartition(rule.mount_point)>>,
          mountpoints |-> storage_mountpoints]
    ELSE
      LET options == storage_mountpoints[rule.mount_point]
          new_opts == SelectSeq(rule.mount_options,
                                LAMBDA opt : opt \notin Range(Split(options, COMMA)))
          new_opts_str == Concat(new_opts)
      IN  [messages |-> [i \in DOMAIN new_opts |->
                            MsgOptionAdded(new_opts[i], rule.mount_point)],
           mountpoints |->
              IF ~report_only
              THEN [storage_mountpoints EXCEPT ![rule.mount_point] = @ \o new_opts_str]
              ELSE storage_mountpoints]

(* fault: no early return for an unplanned mount point, whose options are *)
(* then all reported as added                                             *)
PartRule_eval_rules_NoEarlyReturn(rule, storage_mountpoints, report_only) ==
    LET planned == rule.mount_point \in DOMAIN storage_mountpoints
        options == IF planned THEN storage_mountpoints[rule.mount_point] ELSE <<>>
        new_opts == SelectSeq(rule.mount_options,
                              LAMBDA opt : opt \notin Range(Split(options, COMMA)))
        new_opts_str == Concat([i \in DOMAIN new_opts |-> <<COMMA>> \o new_opts[i]])
    IN  [messages |->
            (IF planned THEN <<>> ELSE <<MsgSeparatePartition(rule.mount_point)>>)
            \o [i \in DOMAIN new_opts |-> MsgOptionAdded(new_opts[i], rule.mount_point)],
         mountpoints |->
            IF ~report_only /\ planned
            THEN [storage_mountpoints EXCEPT ![rule.mount_point] = @ \o new_opts_str]
            ELSE storage_mountpoints]

(* the Infos for the missing options are returned only when the options *)
(* are appended                                                         *)
PartRule_eval_rules_InfoOnlyWhenApplied(rule, storage_mountpoints, report_only) ==
    IF rule.mount_point \notin DOMAIN storage_mountpoints
    THEN [messages |-> <<MsgSeparatePartition(rule.mount_point)>>,
          mountpoints |-> storage_mountpoints]
    ELSE
      LET options == storage_mountpoints[rule.mount_point]
          new_opts == SelectSeq(rule.mount_options,
                                LAMBDA opt : opt \notin Range(Split(options, COMMA)))
          new_opts_str == Concat([i \in DOMAIN new_opts |-> <<COMMA>> \o new_opts[i]])
      IN  IF ~report_only
          THEN [messages |-> [i \in DOMAIN new_opts |->
                                 MsgOptionAdded(new_opts[i], rule.mount_point)],
                mountpoints |->
                   [storage_mountpoints EXCEPT ![rule.mount_point] = @ \o new_opts_str]]
          ELSE [messages |-> <<>>, mountpoints |-> storage_mountpoints]

(* the required option is compared with the whole option string instead *)
(* of with its comma-separated items                                    *)
PartRule_eval_rules_NoSplit(rule, storage_mountpoints, report_only) ==
    IF rule.mount_point \notin DOMAIN storage_mountpoints
    THEN [messages |-> <<MsgSeparatePartition(rule.mount_point)>>,
          mountpoints |-> storage_mountpoints]
    ELSE
      LET options == storage_mountpoints[rule.mount_point]
          new_opts == SelectSeq(rule.mount_options, LAMBDA opt : opt # options)
          new_opts_str == Concat([i \in DOMAIN new_opts |-> <<COMMA>> \o new_opts[i]])
      IN  [messages |-> [i \in DOMAIN new_opts |->
                            MsgOptionAdded(new_opts[i], rule.mount_point)],
           mountpoints |->
              IF ~report_only
              THEN [storage_mountpoints EXCEPT ![rule.mount_point] = @ \o new_opts_str]
              ELSE storage_mountpoints]

PartRule_eval_rules(rule, storage_mountpoints, report_only) ==
    IF rule.mount_point \notin DOMAIN storage_mountpoints
    THEN \* mount point doesn't exist, nothing more can be found here
         [messages |-> <<MsgSeparatePartition(rule.mount_point)>>,
          mountpoints |-> storage_mountpoints]
    ELSE
      LET options == storage_mountpoints[rule.mount_point]
          \* new options that should be added
          new_opts == SelectSeq(rule.mount_options,
                                LAMBDA opt : opt \notin Range(Split(options, COMMA)))
          new_opts_str == Concat([i \in DOMAIN new_opts |-> <<COMMA>> \o new_opts[i]])
      IN  [messages |-> [i \in DOMAIN new_opts |->
                            MsgOptionAdded(new_opts[i], rule.mount_point)],
           mountpoints |->
              IF ~report_only
              THEN [storage_mountpoints EXCEPT ![rule.mount_point] = @ \o new_opts_str]
              ELSE storage_mountpoints]

RECURSIVE PartRules_eval_rules(_, _, _)
(* the PartRule objects are evaluated in the dict's iteration order *)
PartRules_eval_rules(rules, storage_mountpoints, report_only) ==
    IF rules = <<>> THEN [messages |-> <<>>, mountpoints |-> storage_mountpoints]
    ELSE
      LET one == PartRule_eval_rules(Head(rules), storage_mountpoints, report_only)
          rest == PartRules_eval_rules(Tail(rules), one.mountpoints, report_only)
      IN  [messages |-> one.messages \o rest.messages, mountpoints |-> rest.mountpoints]

(* Variant of PasswdRules.eval_rules with a seeded fault: the Warning is *)
(* returned without the "self._minlen > 0" test                          *)
PasswdRules_eval_rules_NoTest(self_minlen) == <<MsgMinLen(self_minlen)>>

PasswdRules_eval_rules(self_minlen) ==
    IF self_minlen > 0 THEN <<MsgMinLen(self_minlen)>> ELSE <<>>

RECURSIVE EvalPkgs_NoMembershipTest(_, _, _, _)
(* Variants of the loops of PackageRules.eval_rules with a seeded fault: *)
(* the package is appended without the "not in" test                     *)
EvalPkgs_NoMembershipTest(pkgs, list, report_only, excluding) ==
    IF pkgs = <<>> THEN [messages |-> <<>>, list |-> list]
    ELSE
      LET pkg == Head(pkgs)
          list1 == IF ~report_only THEN Append(list, pkg) ELSE list
          msg == IF excluding THEN MsgPkgExcluded(pkg) ELSE MsgPkgAdded(pkg)
          rest == EvalPkgs_NoMembershipTest(Tail(pkgs), list1, report_only, excluding)
      IN  [messages |-> <<msg>> \o rest.messages, list |-> rest.list]

RECURSIVE EvalPkgs_InfoOnlyWhenAppended(_, _, _, _)
(* fault: the Info message is inside the "if", so a package that is in *)
(* the list already is not reported                                    *)
EvalPkgs_InfoOnlyWhenAppended(pkgs, list, report_only, excluding) ==
    IF pkgs = <<>> THEN [messages |-> <<>>, list |-> list]
    ELSE
      LET pkg == Head(pkgs)
          appends == ~report_only /\ pkg \notin Range(list)
          list1 == IF appends THEN Append(list, pkg) ELSE list
          msg == IF excluding THEN MsgPkgExcluded(pkg) ELSE MsgPkgAdded(pkg)
          rest == EvalPkgs_InfoOnlyWhenAppended(Tail(pkgs), list1, report_only, excluding)
      IN  [messages |-> (IF appends THEN <<msg>> ELSE <<>>) \o rest.messages,
           list |-> rest.list]

RECURSIVE EvalPkgs_InsertsFirst(_, _, _, _)
(* the package is inserted at the head of the list *)
EvalPkgs_InsertsFirst(pkgs, list, report_only, excluding) ==
    IF pkgs = <<>> THEN [messages |-> <<>>, list |-> list]
    ELSE
      LET pkg == Head(pkgs)
          list1 == IF ~report_only /\ pkg \notin Range(list) THEN <<pkg>> \o list
                   ELSE list
          msg == IF excluding THEN MsgPkgExcluded(pkg) ELSE MsgPkgAdded(pkg)
          rest == EvalPkgs_InsertsFirst(Tail(pkgs), list1, report_only, excluding)
      IN  [messages |-> <<msg>> \o rest.messages, list |-> rest.list]

RECURSIVE EvalPkgs_InvertedTest(_, _, _, _)
(* the package is appended when it is in the list already, not when it is *)
(* missing                                                                *)
EvalPkgs_InvertedTest(pkgs, list, report_only, excluding) ==
    IF pkgs = <<>> THEN [messages |-> <<>>, list |-> list]
    ELSE
      LET pkg == Head(pkgs)
          list1 == IF ~report_only /\ pkg \in Range(list) THEN Append(list, pkg)
                   ELSE list
          msg == IF excluding THEN MsgPkgExcluded(pkg) ELSE MsgPkgAdded(pkg)
          rest == EvalPkgs_InvertedTest(Tail(pkgs), list1, report_only, excluding)
      IN  [messages |-> <<msg>> \o rest.messages, list |-> rest.list]

RECURSIVE EvalPkgs(_, _, _, _)
(* one of the two loops of PackageRules.eval_rules: over pkgs, appending *)
(* to list the packages it does not hold yet (excluding: the second loop, *)
(* over the packages to exclude)                                          *)
EvalPkgs(pkgs, list, report_only, excluding) ==
    IF pkgs = <<>> THEN [messages |-> <<>>, list |-> list]
    ELSE
      LET pkg == Head(pkgs)
          list1 == IF ~report_only /\ pkg \notin Range(list) THEN Append(list, pkg)
                   ELSE list
          msg == IF excluding THEN MsgPkgExcluded(pkg) ELSE MsgPkgAdded(pkg)
          rest == EvalPkgs(Tail(pkgs), list1, report_only, excluding)
      IN  [messages |-> <<msg>> \o rest.messages, list |-> rest.list]

PackageRules_eval_rules(self_add_pkgs, self_remove_pkgs, pkgList, exclList, report_only) ==
    LET adds == EvalPkgs(self_add_pkgs, pkgList, report_only, FALSE)
        rems == EvalPkgs(self_remove_pkgs, exclList, report_only, TRUE)
    IN  [messages |-> adds.messages \o rems.messages,
         packageList |-> adds.list, excludedList |-> rems.list]

(* BootloaderRules inherits RuleHandler.eval_rules *)
RuleHandler_eval_rules == <<>>

(* Variant of RuleData.eval_rules with a seeded fault: the loop over the *)
(* rule handlers stops after a handler that returned a Fatal message     *)
RuleData_eval_rules_StopsAtFatal(rd, sys, report_only) ==
    LET part == PartRules_eval_rules(rd.part_rules, sys.mountpoints, report_only)
        passwd == PasswdRules_eval_rules(rd.minlen)
        package == PackageRules_eval_rules(rd.add_pkgs, rd.remove_pkgs,
                                           sys.packageList, sys.excludedList, report_only)
        bootloader == RuleHandler_eval_rules
    IN  IF \E i \in DOMAIN part.messages : part.messages[i].type = MESSAGE_TYPE_FATAL
        THEN [messages |-> part.messages,
              sys |-> [sys EXCEPT !.mountpoints = part.mountpoints]]
        ELSE [messages |-> part.messages \o passwd \o package.messages \o bootloader,
              sys |-> [mountpoints |-> part.mountpoints,
                       packageList |-> package.packageList,
                       excludedList |-> package.excludedList]]

RuleData_eval_rules(rd, sys, report_only) ==
    LET part == PartRules_eval_rules(rd.part_rules, sys.mountpoints, report_only)
        passwd == PasswdRules_eval_rules(rd.minlen)
        package == PackageRules_eval_rules(rd.add_pkgs, rd.remove_pkgs,
                                           sys.packageList, sys.excludedList, report_only)
        bootloader == RuleHandler_eval_rules
    IN  [messages |-> part.messages \o passwd \o package.messages \o bootloader,
         sys |-> [mountpoints |-> part.mountpoints,
                  packageList |-> package.packageList,
                  excludedList |-> package.excludedList]]

-----------------------------------------------------------------------------
(* The renderings (__str__).  A rendered text is a sequence of lexemes    *)
(* like a rule line, with the lexeme NL for "\n"; "%s" of a string is the *)
(* string and "%d" of an integer its decimal numeral.                     *)

NL == [k |-> "nl", name |-> "", val |-> <<>>]

RECURSIVE Decimal(_)
(* "%d" % n *)
Decimal(n) ==
    IF n < 0 THEN <<"-">> \o Decimal(0 - n)
    ELSE IF n < 10 THEN <<Digits[n + 1]>>
    ELSE Decimal(n \div 10) \o <<Digits[(n % 10) + 1]>>

PartRule_str(rule) ==
    LET ret == <<Pos(<<"part">>), WS, Pos(rule.mount_point)>> IN
    IF rule.mount_options # <<>>
    THEN ret \o <<WS, OptEq("--mountoptions", Join(rule.mount_options, COMMA))>>
    ELSE ret

PartRules_str(rules) == Join([i \in DOMAIN rules |-> PartRule_str(rules[i])], NL)

PasswdRules_str(self_minlen) ==
    IF self_minlen > 0
    THEN <<Pos(<<"passwd">>), WS, OptEq("--minlen", Decimal(self_minlen))>>
    ELSE <<>>

PackageRules_str(self_add_pkgs, self_remove_pkgs) ==
    LET ret == <<Pos(<<"packages">>)>>
        adds == Join([i \in DOMAIN self_add_pkgs |->
                         <<OptEq("--add", self_add_pkgs[i])>>], WS)
        rems == Join([i \in DOMAIN self_remove_pkgs |->
                         <<OptEq("--remove", self_remove_pkgs[i])>>], WS)
        ret1 == IF adds # <<>> THEN ret \o <<WS>> \o adds ELSE ret
    IN  IF rems # <<>> THEN ret1 \o <<WS>> \o rems ELSE ret1

BootloaderRules_str(self_require_password) ==
    IF self_require_password
    THEN <<Pos(<<"bootloader">>), WS, Opt("--passwd")>>
    ELSE <<Pos(<<"bootloader">>)>>

(* the bootloader rules are not among the parts the text is built from *)
RuleData_str(rd) ==
    LET part_strs == PartRules_str(rd.part_rules)
        passwd_str == PasswdRules_str(rd.minlen)
        packages_str == PackageRules_str(rd.add_pkgs, rd.remove_pkgs)
        ret1 == IF part_strs # <<>> THEN part_strs ELSE <<>>
        ret2 == IF passwd_str # <<>> THEN ret1 \o <<NL>> \o passwd_str ELSE ret1
    IN  IF packages_str # <<>> THEN ret2 \o <<NL>> \o packages_str ELSE ret2

(* RuleData.__init__ *)
RuleData_init ==
    [part_rules |-> <<>>, minlen |-> 0, add_pkgs |-> <<>>, remove_pkgs |-> <<>>,
     require_password |-> FALSE]

-----------------------------------------------------------------------------

(* Inputs: the rule lines given to new_rule and the installer states the  *)
(* evaluation starts from                                                 *)

TMP == <<"/tmp">>
OPT == <<"/opt">>
AIDE == <<"aide">>
TELNET == <<"telnet">>

Line(words) ==
    [i \in 1..(2 * Len(words) - 1) |-> IF i % 2 = 1 THEN words[(i + 1) \div 2] ELSE WS]

PartLines ==
    { Line(<<Pos(<<"part">>), Pos(TMP), OptEq("--mountoptions", <<"nodev", COMMA, "nosuid">>)>>),
      Line(<<Pos(<<"part">>), Pos(TMP), OptEq("--mountoptions", <<"nodev", COMMA, "nodev">>)>>),
      Line(<<Pos(<<"part">>), Pos(TMP),
             OptEq("--mountoptions", <<"nosuid", COMMA, COMMA, "nodev">>)>>),
      <<WS>> \o Line(<<Pos(<<"part">>), Pos(OPT), Opt("--mountoptions"), Pos(<<"nodev">>)>>)
         \o <<WS>>,
      Line(<<Pos(<<"part">>), Pos(OPT)>>),
      Line(<<Pos(<<"part">>), Pos(OPT), OptEq("--mountoptions", <<COMMA>>)>>) }

PasswdLines ==
    { Line(<<Pos(<<"passwd">>), OptEq("--minlen", <<"8">>)>>),
      Line(<<Pos(<<"passwd">>), OptEq("--minlen", <<"5">>)>>),
      Line(<<Pos(<<"passwd">>), Opt("--minlen"), Pos(<<"1", "2">>)>>),
      Line(<<Pos(<<"passwd">>), OptEq("--minlen", <<"-", "3">>)>>),
      Line(<<Pos(<<"passwd">>), OptEq("--minlen", <<"8">>), OptEq("--minlen", <<"2">>)>>),
      Line(<<Pos(<<"passwd">>)>>) }

PackageLines ==
    { Line(<<Pos(<<"package">>), OptEq("--add", AIDE)>>),
      Line(<<Pos(<<"package">>), OptEq("--remove", TELNET)>>),
      Line(<<Pos(<<"package">>), OptEq("--add", TELNET), OptEq("--add", AIDE),
             OptEq("--remove", AIDE)>>),
      Line(<<Pos(<<"package">>)>>) }

BootloaderLines ==
    { Line(<<Pos(<<"bootloader">>), Opt("--passwd")>>),
      Line(<<Pos(<<"bootloader">>)>>) }

(* lines that new_rule does not accept, and the blank lines *)
OtherLines ==
    { <<>>,
      <<WS>>,
      Line(<<Pos(<<"foo">>), Opt("--bar")>>),
      Line(<<Opt("--passwd")>>),
      Line(<<Pos(<<"part">>)>>),
      Line(<<Pos(<<"part">>), OptEq("--mountoptions", <<"nodev">>)>>),
      Line(<<Pos(<<"part">>), Opt("--mountoptions"), Pos(TMP)>>),
      Line(<<Pos(<<"part">>), Pos(TMP), Opt("--mountoptions")>>),
      Line(<<Pos(<<"part">>), Pos(TMP), OptEq("--bogus", <<"nodev">>)>>),
      Line(<<Pos(<<"part">>), Pos(TMP), Opt("--help")>>),
      Line(<<Pos(<<"passwd">>), OptEq("--minlen", <<"x">>)>>),
      Line(<<Pos(<<"passwd">>), OptEq("--minlen", <<"0", "8">>)>>),
      Line(<<Pos(<<"passwd">>), Opt("--minlen")>>),
      Line(<<Pos(<<"passwd">>), Opt("--bogus")>>),
      Line(<<Pos(<<"package">>), Opt("--add")>>),
      Line(<<Pos(<<"package">>), OptEq("--install", AIDE)>>),
      Line(<<Pos(<<"bootloader">>), OptEq("--passwd", <<"yes">>)>>),
      Line(<<Pos(<<"bootloader">>), Opt("--bogus")>>) }

Lines == PartLines \cup PasswdLines \cup PackageLines \cup BootloaderLines \cup OtherLines

MountPoints == {TMP, OPT}

(* the directives the evaluation is checked on *)
EvalLines ==
    { Line(<<Pos(<<"part">>), Pos(TMP), OptEq("--mountoptions", <<"nodev", COMMA, "nosuid">>)>>),
      Line(<<Pos(<<"part">>), Pos(TMP),
             OptEq("--mountoptions", <<"nosuid", COMMA, COMMA, "nodev">>)>>),
      Line(<<Pos(<<"part">>), Pos(OPT), OptEq("--mountoptions", <<"nodev">>)>>),
      Line(<<Pos(<<"part">>), Pos(OPT)>>),
      Line(<<Pos(<<"passwd">>), OptEq("--minlen", <<"8">>)>>),
      Line(<<Pos(<<"passwd">>), OptEq("--minlen", <<"5">>)>>),
      Line(<<Pos(<<"package">>), OptEq("--add", AIDE)>>),
      Line(<<Pos(<<"package">>), OptEq("--remove", TELNET)>>),
      Line(<<Pos(<<"package">>), OptEq("--add", TELNET), OptEq("--add", AIDE),
             OptEq("--remove", AIDE)>>),
      Line(<<Pos(<<"bootloader">>), Opt("--passwd")>>) }

InitOptions ==
    (TMP :> { <<>>, <<"defaults">>, <<"defaults", COMMA, "nodev">> }) @@
    (OPT :> { <<"defaults">> })

InitMountpoints ==
    UNION { {f \in [planned -> UNION {InitOptions[m] : m \in planned}] :
                \A m \in planned : f[m] \in InitOptions[m]} :
            planned \in SUBSET MountPoints }

(* ksdata.packages at the start: nothing selected, or aide to install and *)
(* telnet to exclude                                                     *)
InitPackages ==
    { [packageList |-> <<>>, excludedList |-> <<>>],
      [packageList |-> <<AIDE>>, excludedList |-> <<TELNET>>] }

-----------------------------------------------------------------------------
(* The state machine *)

RD ==
    [part_rules |-> part_rules, minlen |-> minlen, add_pkgs |-> add_pkgs,
     remove_pkgs |-> remove_pkgs, require_password |-> require_password]

Sys ==
    [mountpoints |-> mountpoints, packageList |-> packageList,
     excludedList |-> excludedList]

Call(op, line, report_only, err, messages) ==
    [op |-> op, line |-> line, report_only |-> report_only, err |-> err,
     messages |-> messages]

(* RuleData.__init__, before an installer state drawn from the inputs *)
Init ==
    /\ part_rules = <<>>
    /\ minlen = 0
    /\ add_pkgs = <<>>
    /\ remove_pkgs = <<>>
    /\ require_password = FALSE
    /\ mountpoints \in InitMountpoints
    /\ \E ks \in InitPackages :
          /\ packageList = ks.packageList
          /\ excludedList = ks.excludedList
    /\ last = Call("init", <<>>, FALSE, "", <<>>)
    /\ pre = [rd |-> RD, sys |-> Sys]
    /\ prev = [call |-> Call("init", <<>>, FALSE, "", <<>>), sys |-> Sys]
    /\ declared = [minlens |-> {}, effective |-> {}, options |-> <<>>]
    /\ nrules = 0
    /\ nevals = 0

RECURSIVE DeclaredBy(_, _)
(* History only: what the words of an accepted directive declare, read   *)
(* off the text: every --minlen value (and the last of them), the items  *)
(* of every --mountoptions list in the order written, and the words that *)
(* are no options.                                                       *)
DeclaredBy(words, acc) ==
    IF words = <<>> THEN acc
    ELSE
      LET w == Head(words)
          value == IF w.k = "opteq" THEN w.val
                   ELSE IF Len(words) > 1 THEN WordText(words[2]) ELSE <<>>
          after == IF w.k = "opt" /\ Len(words) > 1 THEN Tail(Tail(words))
                   ELSE Tail(words)
      IN
      CASE w.name = "--minlen" ->
              DeclaredBy(after, [acc EXCEPT !.minlens = @ \cup {IntVal(value)},
                                            !.effective = {IntVal(value)}])
        [] w.name = "--mountoptions" ->
              DeclaredBy(after, [acc EXCEPT !.items = @ \o Split(value, COMMA)])
        [] w.k = "pos" ->
              DeclaredBy(Tail(words), [acc EXCEPT !.positional = Append(@, w.val)])
        [] OTHER -> DeclaredBy(Tail(words), acc)

Declare(line, err) ==
    LET d == DeclaredBy(shlex_split(line),
                        [minlens |-> {}, effective |-> {}, items |-> <<>>,
                         positional |-> <<>>])
    IN
    IF err # "" \/ strip(line) = <<>> THEN declared
    ELSE IF d.positional[1] = <<"part">>
    THEN [declared EXCEPT !.options =
            @ \o [i \in DOMAIN d.items |->
                    [mount_point |-> d.positional[2], opt |-> d.items[i]]]]
    ELSE IF d.positional[1] = <<"passwd">>
    THEN [declared EXCEPT !.minlens = @ \cup d.minlens,
                          !.effective = @ \cup d.effective]
    ELSE declared

NewRule(line) ==
    /\ nrules < MaxRules
    /\ \E out \in RuleData_new_rule(RD, line) :
          /\ part_rules' = out.rd.part_rules
          /\ minlen' = out.rd.minlen
          /\ add_pkgs' = out.rd.add_pkgs
          /\ remove_pkgs' = out.rd.remove_pkgs
          /\ require_password' = out.rd.require_password
          /\ last' = Call("new_rule", line, FALSE, out.err, <<>>)
          /\ declared' = Declare(line, out.err)
    /\ pre' = [rd |-> RD, sys |-> Sys]
    /\ prev' = [call |-> last, sys |-> pre.sys]
    /\ nrules' = nrules + 1
    /\ UNCHANGED <<mountpoints, packageList, excludedList, nevals>>

EvalRules(report_only) ==
    /\ nevals < MaxEvals
    /\ LET r == RuleData_eval_rules(RD, Sys, report_only) IN
          /\ mountpoints' = r.sys.mountpoints
          /\ packageList' = r.sys.packageList
          /\ excludedList' = r.sys.excludedList
          /\ last' = Call("eval_rules", <<>>, report_only, "", r.messages)
    /\ pre' = [rd |-> RD, sys |-> Sys]
    /\ prev' = [call |-> last, sys |-> pre.sys]
    /\ nevals' = nevals + 1
    /\ UNCHANGED <<part_rules, minlen, add_pkgs, remove_pkgs, require_password,
                   declared, nrules>>

(* accepted directives and evaluations, from every installer state of the inputs *)
Next ==
    \/ \E line \in EvalLines : NewRule(line)
    \/ \E report_only \in BOOLEAN : EvalRules(report_only)

Spec == Init /\ [][Next]_vars

(* every line of the inputs, accepted or not, and evaluations, from one *)
(* installer state                                                      *)
InitRules ==
    /\ Init
    /\ mountpoints = (TMP :> <<"defaults">>)
    /\ packageList = <<>>
    /\ excludedList = <<>>

NextRules ==
    \/ \E line \in Lines : NewRule(line)
    \/ \E report_only \in BOOLEAN : EvalRules(report_only)

SpecRules == InitRules /\ [][NextRules]_vars

(* str(rule_data): changes nothing; the text is kept as the result of the call *)
StrCall ==
    /\ last' = Call("__str__", <<>>, FALSE, "", RuleData_str(RD))
    /\ pre' = [rd |-> RD, sys |-> Sys]
    /\ prev' = [call |-> last, sys |-> pre.sys]
    /\ UNCHANGED <<part_rules, minlen, add_pkgs, remove_pkgs, require_password,
                   mountpoints, packageList, excludedList, declared, nrules,
                   nevals>>

(* the accepted directives of every kind, and renderings of the rule data *)
AcceptedLines ==
    {line \in PartLines \cup PasswdLines \cup PackageLines \cup BootloaderLines :
        \A out \in RuleData_new_rule(RuleData_init, line) : out.err = ""}

NextStr ==
    \/ \E line \in AcceptedLines : NewRule(line)
    \/ StrCall

SpecStr == InitRules /\ [][NextStr]_vars

-----------------------------------------------------------------------------
(* Vocabulary of the properties *)

Evaluated == last.op = "eval_rules"

Applied == Evaluated /\ ~last.report_only

Reported == Evaluated /\ last.report_only

(* the last two calls were both eval_rules with report_only=False: prev.sys *)
(* is the state before the first, pre.sys the state between them            *)
AppliedTwice ==
    Applied /\ prev.call.op = "eval_rules" /\ ~prev.call.report_only

(* the positions of the messages that satisfy a test on (type, text) *)
MsgsAbout(msgs, type, what, subject) ==
    {i \in DOMAIN msgs :
        /\ msgs[i].type = type
        /\ msgs[i].text[1] = what
        /\ msgs[i].text[Len(msgs[i].text)] = subject}

OptionInfos(msgs, mount_point) == MsgsAbout(msgs, "INFO", "mount option added", mount_point)

Fatals(msgs, mount_point) ==
    MsgsAbout(msgs, "FATAL", "must be on a separate partition", mount_point)

InstallInfos(msgs, pkg) == MsgsAbout(msgs, "INFO", "package to be installed", pkg)

ExcludeInfos(msgs, pkg) == MsgsAbout(msgs, "INFO", "package excluded", pkg)

(* the package messages of a message list, in their order *)
PackageInfos(msgs) ==
    SelectSeq(msgs, LAMBDA m : m.text[1] \in {"package to be installed", "package excluded"})

RuledMountPoints(rules) == {rules[i].mount_point : i \in DOMAIN rules}

(* the items of a comma-separated option string, read position by       *)
(* position: the symbols between two consecutive commas (or string ends) *)
ItemsOf(str) ==
    LET cuts == {0, Len(str) + 1} \cup {i \in DOMAIN str : str[i] = ","}
    IN  {SubSeq(str, a + 1, b - 1) :
            <<a, b>> \in {c \in cuts \X cuts :
                            c[1] < c[2] /\ \A k \in cuts : ~(c[1] < k /\ k < c[2])}}

-----------------------------------------------------------------------------
(* C1: two consecutive eval_rules calls with report_only=False, with no   *)
(* new_rule call in between: the installer state (every mount point's     *)
(* option string, the install list, the exclude list) after the second    *)
(* call is the state after the first call.                                *)
C1_ApplyTwiceSameState == AppliedTwice => Sys = pre.sys

(* the first of the two calls appended mount options and packages *)
C1_Witness ==
    /\ AppliedTwice
    /\ \E m \in DOMAIN prev.sys.mountpoints :
          pre.sys.mountpoints[m] # prev.sys.mountpoints[m]
    /\ pre.sys.packageList # prev.sys.packageList
    /\ Sys = pre.sys

(* C2: eval_rules with report_only=True changes nothing: the installer    *)
(* state and the four rule collections are what they were before the      *)
(* call, and a report-only call that follows a report-only call returns   *)
(* the same message list.                                                  *)
C2_ReportOnlyNoEffect ==
    Reported =>
        /\ Sys = pre.sys
        /\ RD = pre.rd
        /\ (prev.call.op = "eval_rules" /\ prev.call.report_only
               => last.messages = prev.call.messages)

(* two report-only calls in a row that had a mount option and a package to add *)
C2_Witness ==
    /\ Reported
    /\ prev.call.op = "eval_rules" /\ prev.call.report_only
    /\ \E m \in DOMAIN mountpoints : OptionInfos(last.messages, m) # {}
    /\ \E pkg \in Range(add_pkgs) : pkg \notin Range(packageList)
    /\ Sys = pre.sys

(* C3 as stated: the second of two consecutive report_only=False calls    *)
(* returns no Info message for a package that the first call put into the *)
(* install or exclude list.                                                *)
C3_NoInfoForAppliedPackages ==
    AppliedTwice =>
        /\ \A pkg \in Range(pre.sys.packageList) \ Range(prev.sys.packageList) :
              InstallInfos(last.messages, pkg) = {}
        /\ \A pkg \in Range(pre.sys.excludedList) \ Range(prev.sys.excludedList) :
              ExcludeInfos(last.messages, pkg) = {}

(* C3 as amended: the second of two consecutive report_only=False calls   *)
(* returns the package Info messages of the first call again, exactly one *)
(* for each package of the to-install set and one for each package of the *)
(* to-exclude set, also for the packages the first call put into the      *)
(* lists; it appends nothing to the install and exclude lists.            *)
C3_SamePackageInfosAgain ==
    AppliedTwice =>
        /\ \A pkg \in Range(packageList) \cup Range(excludedList)
                        \cup Range(add_pkgs) \cup Range(remove_pkgs) :
              /\ Cardinality(InstallInfos(last.messages, pkg)) =
                    (IF pkg \in Range(add_pkgs) THEN 1 ELSE 0)
              /\ Cardinality(ExcludeInfos(last.messages, pkg)) =
                    (IF pkg \in Range(remove_pkgs) THEN 1 ELSE 0)
        /\ PackageInfos(last.messages) = PackageInfos(prev.call.messages)
        /\ packageList = pre.sys.packageList
        /\ excludedList = pre.sys.excludedList

(* the first call put a package into each list, and the second call *)
(* reports both again                                                *)
C3_Witness ==
    /\ AppliedTwice
    /\ \E pkg \in Range(pre.sys.packageList) \ Range(prev.sys.packageList) :
          InstallInfos(last.messages, pkg) # {}
    /\ \E pkg \in Range(pre.sys.excludedList) \ Range(prev.sys.excludedList) :
          ExcludeInfos(last.messages, pkg) # {}

(* C4: an eval_rules call that follows an eval_rules call with            *)
(* report_only=False (no new_rule in between) finds no missing option: it *)
(* returns no Info message for any planned mount point, in particular for *)
(* those the first call appended options to, and leaves every option      *)
(* string unchanged, in report-only and in apply mode.                    *)
C4_NoMissingOptionAfterApply ==
    (Evaluated /\ prev.call.op = "eval_rules" /\ ~prev.call.report_only) =>
        \A m \in DOMAIN pre.sys.mountpoints :
            /\ OptionInfos(last.messages, m) = {}
            /\ mountpoints[m] = pre.sys.mountpoints[m]

(* the first call appended two options to a mount point, the second call *)
(* is a report-only one                                                  *)
C4_Witness ==
    /\ Reported
    /\ prev.call.op = "eval_rules" /\ ~prev.call.report_only
    /\ \E m \in DOMAIN pre.sys.mountpoints :
          /\ Cardinality(OptionInfos(prev.call.messages, m)) = 2
          /\ pre.sys.mountpoints[m] # prev.sys.mountpoints[m]
          /\ OptionInfos(last.messages, m) = {}

(* C5: for a partition rule whose mount point is not planned, eval_rules  *)
(* returns exactly one Fatal message and no Info message for that mount   *)
(* point and does not touch the installer state on its account (the mount *)
(* point stays unplanned, the planned mount points stay the same, and     *)
(* nothing changes at all when no rule is about a planned mount point and *)
(* no package rule exists), in both modes.                                *)
C5_UnplannedMountPointFatalOnly ==
    Evaluated =>
        /\ \A m \in RuledMountPoints(part_rules) \ DOMAIN pre.sys.mountpoints :
              /\ Cardinality(Fatals(last.messages, m)) = 1
              /\ OptionInfos(last.messages, m) = {}
              /\ m \notin DOMAIN mountpoints
        /\ DOMAIN mountpoints = DOMAIN pre.sys.mountpoints
        /\ (/\ RuledMountPoints(part_rules) \cap DOMAIN pre.sys.mountpoints = {}
            /\ add_pkgs = <<>>
            /\ remove_pkgs = <<>>) => Sys = pre.sys

(* an apply-mode evaluation of a rule with options for an unplanned mount *)
(* point                                                                  *)
C5_Witness ==
    /\ Applied
    /\ \E i \in DOMAIN part_rules :
          /\ part_rules[i].mount_point \notin DOMAIN pre.sys.mountpoints
          /\ part_rules[i].mount_options # <<>>
          /\ Cardinality(Fatals(last.messages, part_rules[i].mount_point)) = 1
    /\ pre.sys.mountpoints # <<>>
    /\ Sys = pre.sys

(* the collection a message comes from: 1 partition, 2 password, 3 package *)
Stage(msg) ==
    CASE msg.text[1] \in {"must be on a separate partition", "mount option added"} -> 1
      [] msg.text[1] = "password minimal length" -> 2
      [] OTHER -> 3

(* C6: the message list of RuleData.eval_rules is the concatenation of    *)
(* the partition, password, package (and bootloader: none) messages in    *)
(* that order, and a Fatal message stops nothing: every unplanned ruled   *)
(* mount point has its Fatal message, the Warning is there whenever       *)
(* minlen > 0, every package rule has its Info message, and in apply mode *)
(* every planned ruled mount point ends with all its required options and *)
(* every package is in its list.                                          *)
C6_FixedOrderNoShortCircuit ==
    Evaluated =>
        LET msgs == last.messages IN
        /\ \A i, j \in DOMAIN msgs : i < j => Stage(msgs[i]) <= Stage(msgs[j])
        /\ \A i, j \in DOMAIN msgs :
              (i < j /\ Stage(msgs[i]) = 3 /\ Stage(msgs[j]) = 3)
                 => ~(msgs[i].text[1] = "package excluded"
                        /\ msgs[j].text[1] = "package to be installed")
        /\ \A m \in RuledMountPoints(part_rules) \ DOMAIN pre.sys.mountpoints :
              Fatals(msgs, m) # {}
        /\ Cardinality({i \in DOMAIN msgs : msgs[i].type = "WARNING"}) =
              (IF minlen > 0 THEN 1 ELSE 0)
        /\ \A pkg \in Range(add_pkgs) : InstallInfos(msgs, pkg) # {}
        /\ \A pkg \in Range(remove_pkgs) : ExcludeInfos(msgs, pkg) # {}
        /\ Len(msgs) >= Cardinality(RuledMountPoints(part_rules) \ DOMAIN pre.sys.mountpoints)
                          + (IF minlen > 0 THEN 1 ELSE 0) + Len(add_pkgs) + Len(remove_pkgs)
        /\ ~last.report_only =>
              /\ \A i \in DOMAIN part_rules :
                    part_rules[i].mount_point \in DOMAIN mountpoints =>
                        Range(part_rules[i].mount_options)
                            \subseteq ItemsOf(mountpoints[part_rules[i].mount_point])
              /\ Range(add_pkgs) \subseteq Range(packageList)
              /\ Range(remove_pkgs) \subseteq Range(excludedList)

(* an apply-mode evaluation whose first message is a Fatal one, followed *)
(* by the Info message of a package that the call put into its list      *)
C6_Witness ==
    /\ Applied
    /\ last.messages # <<>>
    /\ last.messages[1].type = "FATAL"
    /\ \E pkg \in Range(packageList) \ Range(pre.sys.packageList) :
          \E i \in InstallInfos(last.messages, pkg) : i > 1

-----------------------------------------------------------------------------
(* Vocabulary of the properties on new_rule: the text of the last line, *)
(* read without the parser                                              *)

Max(S) == CHOOSE x \in S : \A y \in S : y <= x

Blank(line) == \A i \in DOMAIN line : line[i].k = "ws"

(* the words of a line, and its first whitespace-delimited word *)
LineWords(line) ==
    LET at == {i \in DOMAIN line : line[i].k # "ws"}
    IN  [n \in 1..Cardinality(at) |->
            line[CHOOSE i \in at : Cardinality({j \in at : j <= i}) = n]]

Keyword(line) == WordText(LineWords(line)[1])

Called == last.op = "new_rule"

FlagsOf(keyword) ==
    CASE keyword = <<"part">> -> {"--mountoptions"}
      [] keyword = <<"passwd">> -> {"--minlen"}
      [] keyword = <<"package">> -> {"--add", "--remove"}
      [] keyword = <<"bootloader">> -> {"--passwd"}
      [] OTHER -> {}

ValueFlags == {"--mountoptions", "--minlen", "--add", "--remove"}

(* word i of the line is the value of the flag before it *)
IsValueOfFlag(words, i) ==
    i > 1 /\ words[i - 1].k = "opt" /\ words[i - 1].name \in ValueFlags

IsFlag(words, i) == words[i].k \in {"opt", "opteq"} /\ ~IsValueOfFlag(words, i)

(* the four ways of the claim in which a directive misses its grammar *)
UnknownFlag(line) ==
    LET words == LineWords(line) IN
    \E i \in DOMAIN words :
        IsFlag(words, i) /\ words[i].name \notin FlagsOf(Keyword(line)) \cup {"--help"}

FlagMissingValue(line) ==
    LET words == LineWords(line)
        n == Len(words)
    IN  /\ IsFlag(words, n)
        /\ words[n].k = "opt"
        /\ words[n].name \in ValueFlags \cap FlagsOf(Keyword(line))

NonIntegerMinlen(line) ==
    LET words == LineWords(line) IN
    /\ Keyword(line) = <<"passwd">>
    /\ \E i \in DOMAIN words :
          /\ IsFlag(words, i)
          /\ words[i].name = "--minlen"
          /\ LET v == IF words[i].k = "opteq" THEN words[i].val
                      ELSE IF i < Len(words) THEN WordText(words[i + 1]) ELSE <<"0">>
                 digits == IF v # <<>> /\ v[1] = "-" THEN Tail(v) ELSE v
             IN  digits = <<>> \/ \E k \in DOMAIN digits : ~IsDigit(digits[k], 10)

PartWithoutMountPoint(line) ==
    LET words == LineWords(line) IN
    /\ Keyword(line) = <<"part">>
    /\ Cardinality({i \in DOMAIN words :
                        words[i].k = "pos" /\ ~IsValueOfFlag(words, i)}) = 1

(* what the option parser raises for a directive it rejects: this is the *)
(* code's malformed-directive error                                       *)
MalformedDirectiveErrors == {"SystemExit(2)"}

(* the distinct items of a sequence are in r, in the order of their first *)
(* occurrence in the sequence                                             *)
IsFirstOccurrenceOrder(r, items) ==
    LET first(x) == CHOOSE k \in DOMAIN items :
                        items[k] = x /\ \A j \in 1..(k - 1) : items[j] # x
    IN  /\ Range(r) = Range(items)
        /\ \A i, j \in DOMAIN r : i < j => first(r[i]) < first(r[j])

(* the non-empty option items the accepted part directives gave for a *)
(* mount point, in the order given                                     *)
DeclaredOptions(mount_point) ==
    LET mine == SelectSeq(declared.options,
                          LAMBDA d : d.mount_point = mount_point /\ d.opt # <<>>)
    IN  [i \in DOMAIN mine |-> mine[i].opt]

-----------------------------------------------------------------------------
(* C7 as stated: after every call minlen is the maximum of 0 and all the *)
(* --minlen values that the accepted passwd directives supplied, and no  *)
(* call lowers it.                                                       *)
C7_MinlenIsMaxOfAllSupplied ==
    /\ minlen = Max({0} \cup declared.minlens)
    /\ minlen >= pre.rd.minlen

(* C7 as amended: after every call minlen is the maximum of 0 and the     *)
(* --minlen values of the accepted passwd directives, where a directive   *)
(* that repeats --minlen counts with its last occurrence only; no new_rule *)
(* or eval_rules call lowers it.                                          *)
C7_MinlenIsMaxOfDirectiveValues ==
    /\ minlen = Max({0} \cup declared.effective)
    /\ minlen >= pre.rd.minlen

(* a passwd directive with a lower positive value came after a higher one *)
(* and left minlen as it was                                              *)
C7_Witness ==
    /\ Called /\ last.err = "" /\ ~Blank(last.line)
    /\ Keyword(last.line) = <<"passwd">>
    /\ \E v \in declared.effective : 0 < v /\ v < minlen
    /\ prev.call.op = "new_rule" /\ prev.call.line # last.line
    /\ minlen = pre.rd.minlen

(* C8: in every state the option sequence of every mount point has no    *)
(* duplicate and lists the non-empty options that the accepted part      *)
(* directives gave for the mount point in the order of first occurrence, *)
(* whether an option is repeated across directives or inside one comma   *)
(* list.                                                                 *)
C8_OptionsUniqueInFirstSeenOrder ==
    \A i \in DOMAIN part_rules :
        /\ NoDuplicates(part_rules[i].mount_options)
        /\ IsFirstOccurrenceOrder(part_rules[i].mount_options,
                                  DeclaredOptions(part_rules[i].mount_point))

(* a directive repeated an option inside its comma list, after another *)
(* directive had given the same option                                 *)
C8_Witness ==
    /\ Called /\ last.err = ""
    /\ \E i \in DOMAIN part_rules :
          LET given == DeclaredOptions(part_rules[i].mount_point) IN
          /\ Len(given) >= 4
          /\ given[Len(given)] = given[Len(given) - 1]
          /\ given[Len(given)] \in Range(pre.rd.part_rules[i].mount_options)
          /\ Len(part_rules[i].mount_options) = 2

(* C9: new_rule on a line whose first word is none of part, passwd,       *)
(* package, bootloader raises UknownRuleError; new_rule on an empty or    *)
(* whitespace-only line raises nothing and leaves the rule data unchanged. *)
C9_UnknownKeywordAndBlankLine ==
    Called =>
        /\ Blank(last.line) => (last.err = "" /\ RD = pre.rd)
        /\ (~Blank(last.line) /\ Keyword(last.line) \notin RuleKeywords)
              => last.err = "UknownRuleError"

(* a whitespace-only line went through after an unknown keyword was *)
(* refused, with rules accumulated                                   *)
C9_Witness ==
    /\ Called
    /\ Blank(last.line) /\ last.line # <<>> /\ last.err = ""
    /\ prev.call.op = "new_rule" /\ prev.call.err = "UknownRuleError"
    /\ Keyword(prev.call.line) = <<"foo">>

(* C10 as stated: new_rule on a directive with a known keyword and an     *)
(* unknown flag, a flag without its value, a non-integer --minlen value   *)
(* or (part) no mount point fails with the malformed-directive error.     *)
C10_MalformedDirectiveError ==
    (/\ Called
     /\ ~Blank(last.line)
     /\ Keyword(last.line) \in RuleKeywords
     /\ \/ UnknownFlag(last.line)
        \/ FlagMissingValue(last.line)
        \/ NonIntegerMinlen(last.line)
        \/ PartWithoutMountPoint(last.line))
    => last.err \in MalformedDirectiveErrors

-----------------------------------------------------------------------------
(* Vocabulary of the properties on the rendering *)

Rendered == last.op = "__str__"

(* the lines of a text *)
LinesOf(text) == IF text = <<>> THEN <<>> ELSE Split(text, NL)

RECURSIVE Replay(_, _)
(* new_rule on each line in turn, stopping at the first that raises *)
Replay(outs, lines) ==
    IF lines = <<>> THEN outs
    ELSE Replay(UNION {IF o.err # "" THEN {o} ELSE RuleData_new_rule(o.rd, Head(lines)) :
                          o \in outs},
                Tail(lines))

(* the same accumulated rules: mount points with their option sequences, *)
(* minimal length, package sets and the bootloader flag                  *)
SameRules(a, b) ==
    /\ Range(a.part_rules) = Range(b.part_rules)
    /\ a.minlen = b.minlen
    /\ Range(a.add_pkgs) = Range(b.add_pkgs)
    /\ Range(a.remove_pkgs) = Range(b.remove_pkgs)
    /\ a.require_password = b.require_password

(* C11 as stated: str(RuleData) round-trips through the parser: new_rule  *)
(* on each line of the text, from a fresh RuleData, succeeds and gives    *)
(* the same mount points and options, minimal length, package sets and    *)
(* bootloader flag; the text has lines only for the non-empty collections *)
(* (no blank line, a passwd line only with a positive minimal length, a   *)
(* package line only with a package to install or to exclude).            *)
C11_StrRoundTrips ==
    Rendered =>
        LET lines == LinesOf(last.messages) IN
        /\ \A o \in Replay({Outcome("", RuleData_init)}, lines) :
              o.err = "" /\ SameRules(o.rd, RD)
        /\ \A i \in DOMAIN lines :
              /\ ~Blank(lines[i])
              /\ Keyword(lines[i]) = <<"part">> => part_rules # <<>>
              /\ Keyword(lines[i]) = <<"passwd">> => minlen > 0
              /\ Keyword(lines[i]) \in {<<"package">>, <<"packages">>}
                    => (add_pkgs # <<>> \/ remove_pkgs # <<>>)

-----------------------------------------------------------------------------
(* the last call was new_rule on a bootloader directive, accepted, with or *)
(* without the --passwd flag in its text                                   *)
HasPasswdFlag(line) ==
    \E i \in DOMAIN line : line[i].k = "opt" /\ line[i].name = "--passwd"

AcceptedBootloader ==
    /\ Called /\ last.err = ""
    /\ ~Blank(last.line)
    /\ Keyword(last.line) = <<"bootloader">>

(* C12: the bootloader-password requirement is a one-way latch: it is     *)
(* false before the first new_rule call, it is true after an accepted     *)
(* bootloader directive that carries --passwd, only such a directive      *)
(* turns it on, and no later call (new_rule on any line, a bootloader     *)
(* directive without --passwd included, or eval_rules) turns it off.      *)
C12_RequirePasswordLatch ==
    /\ nrules = 0 => ~require_password
    /\ pre.rd.require_password => require_password
    /\ (AcceptedBootloader /\ HasPasswdFlag(last.line)) => require_password
    /\ (require_password /\ ~pre.rd.require_password)
          => (AcceptedBootloader /\ HasPasswdFlag(last.line))

(* a bootloader directive without --passwd was accepted after the flag was *)
(* raised, and the flag is still up                                        *)
C12_Witness ==
    /\ AcceptedBootloader /\ ~HasPasswdFlag(last.line)
    /\ pre.rd.require_password
    /\ require_password

-----------------------------------------------------------------------------
(* Vocabulary of the properties on mount options *)

IsPrefix(s, t) == Len(s) <= Len(t) /\ SubSeq(t, 1, Len(s)) = s

(* the items of a comma-separated string in their order, and those that *)
(* are not empty                                                        *)
ItemSeq(str) ==
    LET commas == {i \in DOMAIN str : str[i] = ","}
        n == Cardinality(commas)
        cut(k) == IF k = 0 THEN 0
                  ELSE IF k = n + 1 THEN Len(str) + 1
                  ELSE CHOOSE i \in commas : Cardinality({j \in commas : j <= i}) = k
    IN  [k \in 1..(n + 1) |-> SubSeq(str, cut(k - 1) + 1, cut(k) - 1)]

NonEmptyItems(str) == SelectSeq(ItemSeq(str), LAMBDA item : item # <<>>)

(* the options named by the "mount option added" Infos for a mount point, *)
(* in the order of the messages                                           *)
OptionsReported(msgs, mount_point) ==
    LET infos == SelectSeq(msgs, LAMBDA m :
                     /\ m.type = "INFO"
                     /\ m.text[1] = "mount option added"
                     /\ m.text[Len(m.text)] = mount_point)
    IN  [i \in DOMAIN infos |-> infos[i].text[2]]

(* the required options of a rule that are no item of an option string, *)
(* in their declared order                                              *)
MissingOptions(rule, str) ==
    SelectSeq(rule.mount_options, LAMBDA opt : opt \notin ItemsOf(str))

(* C13: for every part rule whose mount point is planned, eval_rules      *)
(* reports with one Info each exactly the required options that are no    *)
(* item of the mount point's option string before the call, in their      *)
(* declared order; with report_only=False the string afterwards is the    *)
(* old one extended, its non-empty items being the old ones followed by   *)
(* those options in that order, and every required option is an item;     *)
(* with report_only=True the string is unchanged.                         *)
C13_MissingOptionsReportedAndAppended ==
    Evaluated =>
        \A i \in DOMAIN part_rules :
            LET rule == part_rules[i]
                mp == rule.mount_point
            IN  mp \in DOMAIN pre.sys.mountpoints =>
                  LET old == pre.sys.mountpoints[mp]
                      missing == MissingOptions(rule, old)
                  IN  /\ OptionsReported(last.messages, mp) = missing
                      /\ Reported => mountpoints[mp] = old
                      /\ Applied =>
                            /\ IsPrefix(old, mountpoints[mp])
                            /\ NonEmptyItems(mountpoints[mp])
                                  = NonEmptyItems(old) \o missing
                            /\ \A opt \in Range(rule.mount_options) :
                                  opt \in ItemsOf(mountpoints[mp])

(* nodev and nosuid required for /tmp planned with "defaults,nodev": one *)
(* Info, for nosuid, and the string becomes "defaults,nodev,nosuid"      *)
C13_Witness ==
    /\ Applied
    /\ \E i \in DOMAIN part_rules :
          /\ part_rules[i].mount_point = TMP
          /\ part_rules[i].mount_options = << <<"nodev">>, <<"nosuid">> >>
    /\ TMP \in DOMAIN pre.sys.mountpoints
    /\ pre.sys.mountpoints[TMP] = <<"defaults", ",", "nodev">>
    /\ OptionsReported(last.messages, TMP) = << <<"nosuid">> >>
    /\ mountpoints[TMP] = <<"defaults", ",", "nodev", ",", "nosuid">>

-----------------------------------------------------------------------------
(* Vocabulary of the properties on the package lists *)

Occurrences(x, list) == Cardinality({i \in DOMAIN list : list[i] = x})

(* a list after an evaluation that had to make the wanted packages its *)
(* members: every package occurs as often as before, and once more if  *)
(* it is wanted and was no member                                      *)
FirstInsertionsOnly(old, new, wanted) ==
    \A pkg \in Range(old) \cup Range(new) \cup wanted :
        Occurrences(pkg, new)
            = Occurrences(pkg, old) + (IF pkg \in wanted /\ pkg \notin Range(old) THEN 1 ELSE 0)

(* C14: eval_rules, with report_only True or False, emits one Info for    *)
(* every package to install and one for every package to exclude, and no  *)
(* other package Info; with report_only=False a package is appended to    *)
(* its list only when it was no member, so that every package occurs as   *)
(* often as before plus one first insertion, and afterwards every         *)
(* package to install is in the install list and every package to         *)
(* exclude in the exclude list; with report_only=True the lists are       *)
(* unchanged.                                                             *)
C14_PackageInfosAndFirstInsertions ==
    Evaluated =>
        /\ \A pkg \in Range(add_pkgs) :
              Cardinality(InstallInfos(last.messages, pkg)) = 1
        /\ \A pkg \in Range(remove_pkgs) :
              Cardinality(ExcludeInfos(last.messages, pkg)) = 1
        /\ Len(PackageInfos(last.messages)) = Len(add_pkgs) + Len(remove_pkgs)
        /\ Reported =>
              /\ packageList = pre.sys.packageList
              /\ excludedList = pre.sys.excludedList
        /\ Applied =>
              /\ FirstInsertionsOnly(pre.sys.packageList, packageList, Range(add_pkgs))
              /\ FirstInsertionsOnly(pre.sys.excludedList, excludedList, Range(remove_pkgs))
              /\ Range(add_pkgs) \subseteq Range(packageList)
              /\ Range(remove_pkgs) \subseteq Range(excludedList)

(* aide and telnet to install, aide to exclude, on lists that hold aide *)
(* (install) and telnet (exclude) already: telnet is appended to the    *)
(* install list, aide is not appended again                             *)
C14_Witness ==
    /\ Applied
    /\ Range(add_pkgs) = {AIDE, TELNET}
    /\ Range(remove_pkgs) = {AIDE}
    /\ pre.sys.packageList = <<AIDE>>
    /\ pre.sys.excludedList = <<TELNET>>
    /\ packageList = <<AIDE, TELNET>>
    /\ excludedList = <<TELNET, AIDE>>
    /\ Cardinality(InstallInfos(last.messages, AIDE)) = 1

-----------------------------------------------------------------------------
(* the Warning messages of a message list, in their order *)
Warnings(msgs) == SelectSeq(msgs, LAMBDA m : m.type = "WARNING")

(* C15: eval_rules, with report_only True or False, returns exactly one   *)
(* Warning, carrying the current minimal password length, when that       *)
(* length is greater than 0 and no Warning when it is 0; the password     *)
(* rules change nothing in the system state: with no part rule and no     *)
(* package rule the state after the call is the state before it.          *)
C15_OneWarningIffMinlenPositive ==
    Evaluated =>
        /\ minlen > 0 =>
              /\ Len(Warnings(last.messages)) = 1
              /\ Warnings(last.messages)[1].text = <<"password minimal length", minlen>>
        /\ minlen = 0 => Warnings(last.messages) = <<>>
        /\ (part_rules = <<>> /\ add_pkgs = <<>> /\ remove_pkgs = <<>>) => Sys = pre.sys

(* a minimal length of 8 and no other rule: eval_rules with               *)
(* report_only=False returned the one Warning and left the state as it was *)
C15_Witness ==
    /\ Applied
    /\ minlen = 8
    /\ part_rules = <<>> /\ add_pkgs = <<>> /\ remove_pkgs = <<>>
    /\ last.messages = <<RuleMessage("WARNING", <<"password minimal length", 8>>)>>
    /\ Sys = pre.sys

-----------------------------------------------------------------------------
(* Vocabulary of the properties on the order of two directives *)

(* a directive that new_rule accepts *)
Valid(line) == \A o \in RuleData_new_rule(RuleData_init, line) : o.err = ""

(* the last call was new_rule on a valid part or package directive *)
AcceptedAdditive ==
    /\ Called /\ last.err = ""
    /\ ~Blank(last.line)
    /\ Keyword(last.line) \in {<<"part">>, <<"package">>}

(* the valid directives of the inputs that have the keyword of a line *)
ValidOfKind(line) ==
    {l \in Lines : ~Blank(l) /\ Keyword(l) = Keyword(line) /\ Valid(l)}

(* the rule data that new_rule on l1 and then on l2 can leave *)
Both(rd, l1, l2) ==
    {o2.rd : o2 \in UNION {RuleData_new_rule(o1.rd, l2) :
                              o1 \in RuleData_new_rule(rd, l1)}}

(* the same package sets, mount points and set of options per mount point *)
SameRuleSets(a, b) ==
    /\ Range(a.add_pkgs) = Range(b.add_pkgs)
    /\ Range(a.remove_pkgs) = Range(b.remove_pkgs)
    /\ {<<r.mount_point, Range(r.mount_options)>> : r \in Range(a.part_rules)}
          = {<<r.mount_point, Range(r.mount_options)>> : r \in Range(b.part_rules)}

(* C16 as stated: two valid package directives, or two valid part         *)
(* directives (for the same mount point or not), applied to the same rule *)
(* data in either order, leave the same accumulated rules: the same       *)
(* package sets, the same mount points and the same option sequence for   *)
(* each mount point.                                                      *)
C16_AdditiveDirectivesCommute ==
    AcceptedAdditive =>
        \A other \in ValidOfKind(last.line) :
            \A a \in Both(pre.rd, last.line, other), b \in Both(pre.rd, other, last.line) :
                SameRules(a, b)

(* C16: two valid package directives, or two valid part directives,       *)
(* applied to the same rule data in either order, leave the same package  *)
(* sets, the same mount points and the same set of options for each       *)
(* mount point; the order within a mount point's option sequence is the   *)
(* order of first occurrence and depends on the order of the directives.  *)
C16_AdditiveDirectivesCommuteAsSets ==
    AcceptedAdditive =>
        \A other \in ValidOfKind(last.line) :
            \A a \in Both(pre.rd, last.line, other), b \in Both(pre.rd, other, last.line) :
                SameRuleSets(a, b)

(* a part directive for /tmp was accepted, and with another valid part    *)
(* directive for /tmp the two orders give the same set of options for     *)
(* /tmp in two different sequences                                        *)
C16_Witness ==
    /\ AcceptedAdditive
    /\ Keyword(last.line) = <<"part">>
    /\ \E other \in ValidOfKind(last.line) :
          \E a \in Both(pre.rd, last.line, other), b \in Both(pre.rd, other, last.line) :
              /\ SameRuleSets(a, b)
              /\ \E r \in Range(a.part_rules), s \in Range(b.part_rules) :
                    /\ r.mount_point = TMP /\ s.mount_point = TMP
                    /\ r.mount_options # s.mount_options
                    /\ Range(r.mount_options) = {<<"nodev">>, <<"nosuid">>}

-----------------------------------------------------------------------------
(* C17 as stated: eval_rules with report_only=False, for a planned mount  *)
(* point whose option string was empty and whose rule requires the        *)
(* options o1, ..., on, sets the string to exactly o1,...,on: the options *)
(* joined by commas, with no leading separator and no empty item.         *)
C17_EmptyStringBecomesJoinedOptions ==
    Applied =>
        \A i \in DOMAIN part_rules :
            LET rule == part_rules[i]
                mp == rule.mount_point
            IN  (mp \in DOMAIN pre.sys.mountpoints /\ pre.sys.mountpoints[mp] = <<>>)
                    => /\ mountpoints[mp] = Join(rule.mount_options, COMMA)
                       /\ rule.mount_options # <<>> => <<>> \notin ItemsOf(mountpoints[mp])

-----------------------------------------------------------------------------
(* the last two calls were eval_rules with report_only=True and then      *)
(* eval_rules with report_only=False, both started from the same rules    *)
(* and the same installer state                                           *)
ReportedThenApplied ==
    /\ Applied
    /\ prev.call.op = "eval_rules" /\ prev.call.report_only
    /\ pre.sys = prev.sys

(* C18: report-only mode is a faithful preview: eval_rules with           *)
(* report_only=True returns exactly the message list (the same messages   *)
(* in the same order) that eval_rules with report_only=False returns when *)
(* started from the same rules and the same installer state.              *)
C18_ReportOnlyIsFaithfulPreview ==
    ReportedThenApplied => last.messages = prev.call.messages

(* a preview and then an application that changed a mount point's options *)
(* and the install list, with the same two or more messages               *)
C18_Witness ==
    /\ ReportedThenApplied
    /\ Sys # pre.sys
    /\ mountpoints # pre.sys.mountpoints
    /\ packageList # pre.sys.packageList
    /\ last.messages = prev.call.messages
    /\ Len(last.messages) >= 2

-----------------------------------------------------------------------------
(* C19: eval_rules with report_only=False only appends: the set of        *)
(* planned mount points is unchanged, every planned mount point's         *)
(* previous option string is a prefix of its new one, a mount point       *)
(* without a part rule keeps its string, and the previous install and     *)
(* exclude lists are prefixes of the new ones.                            *)
C19_ApplyOnlyAppends ==
    Applied =>
        /\ DOMAIN mountpoints = DOMAIN pre.sys.mountpoints
        /\ \A mp \in DOMAIN pre.sys.mountpoints :
              /\ IsPrefix(pre.sys.mountpoints[mp], mountpoints[mp])
              /\ mp \notin RuledMountPoints(part_rules)
                    => mountpoints[mp] = pre.sys.mountpoints[mp]
        /\ IsPrefix(pre.sys.packageList, packageList)
        /\ IsPrefix(pre.sys.excludedList, excludedList)

(* /tmp and /opt planned, a part rule for /tmp only: the options of /tmp *)
(* and the two non-empty package lists grew, /opt kept its options       *)
C19_Witness ==
    /\ Applied
    /\ DOMAIN pre.sys.mountpoints = {TMP, OPT}
    /\ RuledMountPoints(part_rules) = {TMP}
    /\ pre.sys.mountpoints[TMP] # <<>>
    /\ Len(mountpoints[TMP]) > Len(pre.sys.mountpoints[TMP])
    /\ mountpoints[OPT] = pre.sys.mountpoints[OPT]
    /\ pre.sys.packageList = <<AIDE>> /\ packageList = <<AIDE, TELNET>>
    /\ pre.sys.excludedList = <<TELNET>> /\ excludedList = <<TELNET, AIDE>>

-----------------------------------------------------------------------------
(* the last call was new_rule and it raised *)
Failed == Called /\ last.err # ""

(* C20: a new_rule call that fails (unknown keyword, unknown flag, bad or *)
(* missing value, missing mount point) leaves the part rules, the minimal *)
(* password length, the package sets and the bootloader flag exactly as   *)
(* they were before the call: nothing of the directive is applied.        *)
C20_FailedDirectiveChangesNothing ==
    Failed => RD = pre.rd

(* a part directive that names /tmp and then fails in the parser, after a *)
(* rule for another mount point was accepted: there is no rule for /tmp   *)
C20_Witness ==
    /\ Failed
    /\ last.err = "SystemExit(2)"
    /\ Keyword(last.line) = <<"part">>
    /\ Len(LineWords(last.line)) >= 2
    /\ LineWords(last.line)[2] = Pos(TMP)
    /\ RuledMountPoints(part_rules) = {OPT}
    /\ RD = pre.rd

=============================================================================
